---- MODULE Spec2Model ----
(***************************************************************************)
(* Meal-plan resolution and cache engine of fu-mensa.                      *)
(*                                                                         *)
(*   crates/mensa-meal-api/src/processed.rs   MealPlans, MealPlan          *)
(*   crates/mensa-web-api/src/routes/data.rs  MealPlanManager,             *)
(*                                             MealCollections             *)
(*                                                                         *)
(* Strings that the code takes apart (cache keys) are sequences of         *)
(* characters; dates are day ordinals with their ISO rendering in a table. *)
(***************************************************************************)
EXTENDS Integers, Sequences, FiniteSets, TLC

\* ------------------------------------------------------------------ bounds

\* longest day sequence / upstream payload explored for one MealPlan
MaxLen == 3

\* longest facility id / language string taken through the key encoding
MaxStr == 2

\* operations (get_plan, get_day, fetch_all) started in one run of the manager
MaxCalls == 2

\* longest price string built from PriceChars
MaxPrice == 4

\* most pieces in one attribute string
MaxCodes == 4

\* ------------------------------------------------------------ domain model

\* Option<T> is a sequence of length at most one
None == <<>>

Some(v) == <<v>>

\* chrono::NaiveDate, as a day ordinal
Dates == {1, 2, 3}

\* NaiveDate's Display / serde rendering, "%Y-%m-%d"
IsoOf == <<"2024-01-01", "2024-01-02", "2024-01-03">>

DateToString(d) == IsoOf[d]

\* the datum_iso strings upstream may send: the three ISO dates, an unpadded
\* spelling of the second one, and two strings that are no "%Y-%m-%d" date
DateStrings == {"2024-01-01", "2024-01-02", "2024-01-03", "2024-1-2", "02.01.2024", ""}

\* NaiveDate::parse_from_str(s, "%Y-%m-%d"): numeric fields need no padding
parse_from_str(s) ==
    IF \E d \in Dates : IsoOf[d] = s
    THEN [ok |-> TRUE, date |-> CHOOSE d \in Dates : IsoOf[d] = s]
    ELSE IF s = "2024-1-2"
         THEN [ok |-> TRUE, date |-> 2]
         ELSE [ok |-> FALSE, date |-> 0]

\* what one day offers (the category map), as an opaque token
Contents == {"x", "y"}

MealDay == [date : Dates, categories : Contents]

\* raw::ApiPlan, reduced to the fields try_from reads
ApiPlan == [datum_iso : DateStrings, essen : Contents]

\* ------------------------------------------------------------------- state

VARIABLES
    days,     \* MealPlan.days of the plan under test
    origin,   \* how that plan was constructed: "none" (not yet), "new", "try_from",
              \* or "failed" (try_from returned Err)
    debug,    \* whether the build has debug_assertions
    last,     \* the last call on the plan: its arguments, the plan before, the result
    keyrun,   \* one (facility, language) pair taken through MealPlans::key and back
    call,     \* the last call of a function under test: its arguments and its result
    data,       \* MealPlanManager.data: the MealPlans map, key -> plan
    rw,         \* the RwLock around it: the tasks holding a read or the write guard
    tasks,      \* the request / refresh tasks: operation, position, locals, result
    jobs,       \* the detached durable writes store_plan has spawned
    dbMensas,   \* durable collection "mensas"
    dbMeals,    \* durable collection "meals"
    configured, \* MealPlanManager.collections is Some
    started,    \* operations started so far
    restarted   \* the process has been restarted (once in a run of the model)

planVars == <<days, origin, debug, last>>

keyVars == <<keyrun, call>>

dbVars == <<dbMensas, dbMeals>>

mgrVars == <<data, rw, tasks, jobs, dbMensas, dbMeals, configured, started, restarted>>

vars == <<planVars, keyVars, mgrVars>>

\* what the MealPlan calls leave alone
notPlanVars == <<keyVars, mgrVars>>

\* what the key calls leave alone
notKeyVars == <<planVars, mgrVars>>

\* what the manager leaves alone
notMgrVars == <<planVars, keyVars>>

NoDay == [date |-> 0, categories |-> ""]

NoCall ==
    [op |-> "none", day |-> 0, meals |-> NoDay, value |-> <<>>, pre |-> <<>>, res |-> None]

\* ------------------------------------------------------- MealPlan (4.2)

\* MealPlan::assert_sorted's condition: windows(2).all(|v| v[0].date <= v[1].date)
assert_sorted(s) == \A i \in 1..(Len(s) - 1) : s[i].date <= s[i + 1].date

\* index sets of the days with a date
Matches(s, day) == {i \in 1..Len(s) : s[i].date = day}

\* slice::binary_search_by_key(&day, |v| v.date) on the window [lo, hi) of s,
\* indices 0-based as in Rust: probe an element of the window, return Ok at an
\* equal key, else continue in the half the comparison points to; Err(lo) on an
\* empty window. The probe order is the standard library's and differs between
\* toolchains, so every probe of the window is allowed: on a sorted slice this
\* yields any one match (or the insertion point), on an unsorted slice whatever
\* the comparisons lead to.
RECURSIVE BinarySearch(_, _, _, _)
BinarySearch(s, day, lo, hi) ==
    IF lo >= hi
    THEN {[ok |-> FALSE, i |-> lo]}
    ELSE UNION {
            IF s[mid + 1].date = day
            THEN {[ok |-> TRUE, i |-> mid]}
            ELSE IF s[mid + 1].date < day
                 THEN BinarySearch(s, day, mid + 1, hi)
                 ELSE BinarySearch(s, day, lo, mid)
            : mid \in lo..(hi - 1)}

binary_search_by_key(s, day) == BinarySearch(s, day, 0, Len(s))

\* Vec::insert(i, v), i 0-based
VecInsert(s, i, v) == SubSeq(s, 1, i) \o <<v>> \o SubSeq(s, i + 1, Len(s))

\* Vec::remove(i), i 0-based
VecRemove(s, i) == SubSeq(s, 1, i) \o SubSeq(s, i + 2, Len(s))

\* the debug_assert! of assert_sorted fails: the call panics, the plan is as before
PanicsOnEntry == debug /\ ~assert_sorted(days)

\* MealPlan::new constructs the plan under test
MealPlan_new ==
    /\ origin = "none"
    /\ days' = <<>>
    /\ origin' = "new"
    /\ last' = [NoCall EXCEPT !.op = "new"]
    /\ UNCHANGED <<debug, notPlanVars>>

\* the mutant of add_day that overwrites the day it finds
add_day_overwrite(day, meals) ==
    /\ origin \in {"new", "try_from"}
    /\ Len(days) < MaxLen
    /\ ~PanicsOnEntry
    /\ \E r \in binary_search_by_key(days, day) :
          /\ days' = IF r.ok THEN [days EXCEPT ![r.i + 1] = meals]
                             ELSE VecInsert(days, r.i, meals)
          /\ last' = [NoCall EXCEPT !.op = "add_day", !.day = day, !.meals = meals,
                                    !.pre = days]
    /\ UNCHANGED <<origin, debug, notPlanVars>>

\* MealPlan::add_day(day, meals)
add_day(day, meals) ==
    /\ origin \in {"new", "try_from"}
    /\ Len(days) < MaxLen
    /\ \/ /\ PanicsOnEntry
          /\ last' = [NoCall EXCEPT !.op = "panic", !.day = day, !.meals = meals, !.pre = days]
          /\ UNCHANGED days
       \/ /\ ~PanicsOnEntry
          /\ \E r \in binary_search_by_key(days, day) :
                /\ days' = IF r.ok THEN days ELSE VecInsert(days, r.i, meals)
                /\ last' = [NoCall EXCEPT !.op = "add_day", !.day = day, !.meals = meals,
                                          !.pre = days]
    /\ UNCHANGED <<origin, debug, notPlanVars>>

\* MealPlan::remove_day(day)
remove_day(day) ==
    /\ origin \in {"new", "try_from"}
    /\ \/ /\ PanicsOnEntry
          /\ last' = [NoCall EXCEPT !.op = "panic", !.day = day, !.pre = days]
          /\ UNCHANGED days
       \/ /\ ~PanicsOnEntry
          /\ \E r \in binary_search_by_key(days, day) :
                /\ days' = IF r.ok THEN VecRemove(days, r.i) ELSE days
                /\ last' = [NoCall EXCEPT !.op = "remove_day", !.day = day, !.pre = days]
    /\ UNCHANGED <<origin, debug, notPlanVars>>

\* the mutant of MealPlan::get_day_internal that reads the slot after the match
get_day_internal_next_slot(s, day) ==
    {IF r.ok
     THEN (IF r.i + 2 <= Len(s) THEN Some(s[r.i + 2]) ELSE None)
     ELSE None : r \in binary_search_by_key(s, day)}

\* MealPlan::get_day_internal(day) on a day sequence: the possible results
MealPlan_get_day_internal(s, day) ==
    {IF r.ok THEN Some(s[r.i + 1]) ELSE None : r \in binary_search_by_key(s, day)}

\* a call of MealPlan::get_day_internal on the plan under test
lookup(day) ==
    /\ origin \in {"new", "try_from"}
    /\ \E v \in MealPlan_get_day_internal(days, day) :
          last' = [NoCall EXCEPT !.op = "get_day_internal", !.day = day, !.pre = days,
                                    !.res = v]
    /\ UNCHANGED <<days, origin, debug, notPlanVars>>

\* all sequences over S of length at most n
SeqsUpTo(S, n) == UNION {[1..k -> S] : k \in 0..n}

\* the upstream payloads explored: raw::ApiResult.result
ApiResults == SeqsUpTo(ApiPlan, MaxLen)

\* one per-day record of the payload turned into a MealDay (the closure of the map)
DayOf(v) == [date |-> parse_from_str(v.datum_iso).date, categories |-> v.essen]

\* slice::sort_by_key(|v| v.date): a stable sort, here by insertion
RECURSIVE sort_by_key(_)
sort_by_key(s) ==
    IF s = <<>>
    THEN <<>>
    ELSE LET init == sort_by_key(SubSeq(s, 1, Len(s) - 1))
             x == s[Len(s)]
             k == Cardinality({j \in 1..Len(init) : init[j].date <= x.date})
         IN  VecInsert(init, k, x)

\* impl TryFrom<raw::ApiResult> for MealPlan: Err(InvalidDate) if any date string
\* does not parse, else the days sorted by date
MealPlan_try_from(value) ==
    IF \E i \in 1..Len(value) : ~parse_from_str(value[i].datum_iso).ok
    THEN [ok |-> FALSE, days |-> <<>>]
    ELSE [ok |-> TRUE, days |-> sort_by_key([i \in 1..Len(value) |-> DayOf(value[i])])]

\* the plan under test is constructed from an upstream payload; on Err there is
\* no plan to call ("failed")
try_from ==
    /\ origin = "none"
    /\ \E value \in ApiResults :
          LET r == MealPlan_try_from(value)
          IN  /\ days' = r.days
              /\ origin' = IF r.ok THEN "try_from" ELSE "failed"
              /\ last' = [NoCall EXCEPT !.op = IF r.ok THEN "try_from" ELSE "try_from_err",
                                        !.value = value]
    /\ UNCHANGED <<debug, notPlanVars>>

\* no MealPlan under test
PlanIdle ==
    /\ days = <<>>
    /\ origin = "none"
    /\ debug = FALSE
    /\ last = NoCall

\* no pair taken through the key encoding
NoKeyRun == [mensa |-> <<>>, lang |-> <<>>, key |-> <<>>, out |-> None, step |-> "none"]

\* no function called
NoFnCall == [op |-> "none"]

KeyIdle == keyrun = NoKeyRun /\ call = NoFnCall

\* no manager running
ManagerIdle ==
    /\ data = <<>>
    /\ rw = [readers |-> {}, writer |-> {}]
    /\ tasks = <<>>
    /\ jobs = {}
    /\ dbMensas = {}
    /\ dbMeals = {}
    /\ configured = FALSE
    /\ started = 0
    /\ restarted = FALSE

InitPlan ==
    /\ days = <<>>
    /\ origin = "none"
    /\ debug \in BOOLEAN
    /\ last = NoCall
    /\ KeyIdle
    /\ ManagerIdle

NextPlan ==
    \/ MealPlan_new
    \/ \E day \in Dates, meals \in MealDay : add_day(day, meals)
    \/ \E day \in Dates : remove_day(day)
    \/ \E day \in Dates : lookup(day)
    \/ try_from

SpecPlan == InitPlan /\ [][NextPlan]_vars

\* ------------------------------------------------- MealPlans (4.3)

\* MealPlans::key's DEFAULT_LANG, "en"
DEFAULT_LANG == <<"e", "n">>

\* Option::unwrap_or
unwrap_or(o, d) == IF o = None THEN d ELSE o[1]

\* MealPlans::key(mensa, lang): format!("{};{mensa}", lang.unwrap_or(DEFAULT_LANG))
MealPlans_key(mensa, lang) == unwrap_or(lang, DEFAULT_LANG) \o <<";">> \o mensa

\* str::split_once(";"): the parts before and after the first ';', None without one
split_once(s) ==
    IF \E i \in 1..Len(s) : s[i] = ";"
    THEN LET i == CHOOSE i \in 1..Len(s) : s[i] = ";" /\ \A j \in 1..(i - 1) : s[j] # ";"
         IN  Some(<<SubSeq(s, 1, i - 1), SubSeq(s, i + 1, Len(s))>>)
    ELSE None

\* MealPlans::get(mensa, lang) on the map m (key -> plan)
MealPlans_get(m, mensa, lang) ==
    IF MealPlans_key(mensa, lang) \in DOMAIN m THEN Some(m[MealPlans_key(mensa, lang)]) ELSE None

\* the mutant of HashMap::insert that keeps the value a present key has
HashMap_insert_keep(h, k, v) ==
    [map |-> [x \in DOMAIN h \cup {k} |-> IF x \in DOMAIN h THEN h[x] ELSE v],
     old |-> IF k \in DOMAIN h THEN Some(h[k]) ELSE None]

\* HashMap::insert(k, v): the map afterwards and the value returned, the old
\* value of the key if it had one
HashMap_insert(h, k, v) ==
    [map |-> [x \in DOMAIN h \cup {k} |-> IF x = k THEN v ELSE h[x]],
     old |-> IF k \in DOMAIN h THEN Some(h[k]) ELSE None]

\* MealPlans::insert(mensa, lang, plan): the map afterwards
MealPlans_insert(m, mensa, lang, plan) == HashMap_insert(m, MealPlans_key(mensa, lang), plan).map

\* MealPlans::insert(mensa, lang, plan): the value returned
MealPlans_insert_returns(m, mensa, lang, plan) ==
    HashMap_insert(m, MealPlans_key(mensa, lang), plan).old

\* MealPlans::mensas(): keys().flat_map(|v| v.split_once(";")), the tuples it
\* yields (in the map's iteration order, which is unspecified)
MealPlans_mensas(m) == {split_once(k)[1] : k \in {k \in DOMAIN m : split_once(k) # None}}

\* the facility ids, languages and plans of the calls on the map under test
MapMensas == {<<"a">>, <<"b">>}

MapLangs == {None, Some(<<"e", "n">>), Some(<<"d", "e">>)}

MapPlans == {[days |-> <<>>, mensa_name |-> n] : n \in {"A", "B"}}

\* MealPlans::insert on the map under test
map_insert ==
    /\ \E mensa \in MapMensas, lang \in MapLangs, plan \in MapPlans :
          /\ data' = MealPlans_insert(data, mensa, lang, plan)
          /\ call' = [op |-> "insert", mensa |-> mensa, lang |-> lang, plan |-> plan,
                      pre |-> data,
                      ret |-> MealPlans_insert_returns(data, mensa, lang, plan)]
    /\ UNCHANGED <<planVars, keyrun, rw, tasks, jobs, dbVars, configured, started, restarted>>

\* MealPlans::get on the map under test
map_get ==
    /\ \E mensa \in MapMensas, lang \in MapLangs :
          call' = [op |-> "get", mensa |-> mensa, lang |-> lang, pre |-> data,
                   ret |-> MealPlans_get(data, mensa, lang)]
    /\ UNCHANGED <<planVars, keyrun, mgrVars>>

\* MealPlans::default()
InitMap == PlanIdle /\ KeyIdle /\ ManagerIdle

NextMap == map_insert \/ map_get

SpecMap == InitMap /\ [][NextMap]_vars

\* ------------------------------------------------------- Price (4.1)

Digits == {"0", "1", "2", "3", "4", "5", "6", "7", "8", "9"}

DigitVal(c) ==
    CASE c = "0" -> 0 [] c = "1" -> 1 [] c = "2" -> 2 [] c = "3" -> 3 [] c = "4" -> 4
      [] c = "5" -> 5 [] c = "6" -> 6 [] c = "7" -> 7 [] c = "8" -> 8 [] c = "9" -> 9

\* u32::MAX, 4294967295, digit by digit
U32MaxDigits == <<4, 2, 9, 4, 9, 6, 7, 2, 9, 5>>

\* a digit sequence without its leading zeros
RECURSIVE StripZeros(_)
StripZeros(ds) == IF ds # <<>> /\ ds[1] = 0 THEN StripZeros(Tail(ds)) ELSE ds

\* a > b for digit sequences of one length
RECURSIVE DigitsGreater(_, _)
DigitsGreater(a, b) ==
    IF a = <<>>
    THEN FALSE
    ELSE IF a[1] # b[1] THEN a[1] > b[1] ELSE DigitsGreater(Tail(a), Tail(b))

RECURSIVE ValueOf(_)
ValueOf(ds) == IF ds = <<>> THEN 0 ELSE ValueOf(SubSeq(ds, 1, Len(ds) - 1)) * 10 + ds[Len(ds)]

\* str::parse::<u32>().ok(): an optional '+', then one or more decimal digits,
\* and a value of at most u32::MAX
parse_u32(s) ==
    LET body == IF s # <<>> /\ s[1] = "+" THEN Tail(s) ELSE s
    IN  IF body = <<>> \/ \E i \in 1..Len(body) : body[i] \notin Digits
        THEN None
        ELSE LET ds == StripZeros([i \in 1..Len(body) |-> DigitVal(body[i])])
             IN  IF Len(ds) > Len(U32MaxDigits)
                    \/ (Len(ds) = Len(U32MaxDigits) /\ DigitsGreater(ds, U32MaxDigits))
                 THEN None
                 ELSE Some(ValueOf(ds))

\* str::split_once(","): the parts before and after the first ','
split_once_comma(s) ==
    IF \E i \in 1..Len(s) : s[i] = ","
    THEN LET i == CHOOSE i \in 1..Len(s) : s[i] = "," /\ \A j \in 1..(i - 1) : s[j] # ","
         IN  Some(<<SubSeq(s, 1, i - 1), SubSeq(s, i + 1, Len(s))>>)
    ELSE None

\* Price::parse(s)
Price_parse(s) ==
    IF split_once_comma(s) = None
    THEN None
    ELSE LET eur == parse_u32(split_once_comma(s)[1][1])
             cent == parse_u32(split_once_comma(s)[1][2])
         IN  IF eur = None \/ cent = None
             THEN None
             ELSE IF cent[1] >= 100
                  THEN None
                  ELSE Some([eur |-> eur[1], cent |-> cent[1]])

\* the price strings parsed: every short string over a few characters, and
\* some longer ones
PriceChars == {"0", "1", "5", ",", "+", "a"}

PriceExamples ==
    {<<"0", ",", "0", "0">>,
     <<"1", "2", ",", "0", "5">>,
     <<"1", "2", ",", "1", "0", "0">>,
     <<"a", "b", "c", ",", "5", "0">>,
     <<"3", ",", "5", "0">>,
     <<"3", ",", "5">>,
     <<"1", "2", "5", "0">>,
     <<"4", "2", "9", "4", "9", "6", "7", "2", "9", "6", ",", "0", "0">>,
     <<"+", "3", ",", "+", "5", "0">>,
     <<"3", ",">>,
     <<",", "5">>}

PriceStrings == SeqsUpTo(PriceChars, MaxPrice) \cup PriceExamples

\* a call of Price::parse
price_parse ==
    /\ call = NoFnCall
    /\ \E s \in PriceStrings : call' = [op |-> "Price::parse", s |-> s, ret |-> Price_parse(s)]
    /\ UNCHANGED <<keyrun, notKeyVars>>

\* ---------------------------------------------------- MealInfo (4.1)

\* InfoItem::from_id: the codes and the items they stand for
InfoTable ==
    {[id |-> <<"0", "A", "m", "p", "e", "l", "0">>, kind |-> "HealthRating", v |-> "Green"],
     [id |-> <<"0", "A", "m", "p", "e", "l", "1">>, kind |-> "HealthRating", v |-> "Yellow"],
     [id |-> <<"0", "A", "m", "p", "e", "l", "2">>, kind |-> "HealthRating", v |-> "Red"],
     [id |-> <<"2">>, kind |-> "Addative", v |-> "Pork"],
     [id |-> <<"3">>, kind |-> "Addative", v |-> "Alcohol"],
     [id |-> <<"4">>, kind |-> "Addative", v |-> "FlavourEnhancer"],
     [id |-> <<"5">>, kind |-> "Addative", v |-> "Waxed"],
     [id |-> <<"6">>, kind |-> "Addative", v |-> "Preserved"],
     [id |-> <<"7">>, kind |-> "Addative", v |-> "Antioxidants"],
     [id |-> <<"8">>, kind |-> "Addative", v |-> "Coloring"],
     [id |-> <<"9">>, kind |-> "Addative", v |-> "Phosphate"],
     [id |-> <<"1", "0">>, kind |-> "Addative", v |-> "Darkened"],
     [id |-> <<"1", "2">>, kind |-> "Addative", v |-> "Phenylalaninsource"],
     [id |-> <<"1", "3">>, kind |-> "Addative", v |-> "Sweeteners"],
     [id |-> <<"1", "4">>, kind |-> "Addative", v |-> "SmallFishParts"],
     [id |-> <<"1", "6">>, kind |-> "Addative", v |-> "Caffeine"],
     [id |-> <<"1", "7">>, kind |-> "Addative", v |-> "Chitin"],
     [id |-> <<"1", "9">>, kind |-> "Addative", v |-> "Sulfur"],
     [id |-> <<"2", "0">>, kind |-> "Addative", v |-> "LaxativeEffect"],
     [id |-> <<"2", "1">>, kind |-> "Allergen", v |-> "Gluten"],
     [id |-> <<"2", "1", "a">>, kind |-> "Allergen", v |-> "Wheat"],
     [id |-> <<"2", "1", "b">>, kind |-> "Allergen", v |-> "Rye"],
     [id |-> <<"2", "1", "c">>, kind |-> "Allergen", v |-> "Barley"],
     [id |-> <<"2", "1", "d">>, kind |-> "Allergen", v |-> "Oats"],
     [id |-> <<"2", "1", "e">>, kind |-> "Allergen", v |-> "Spelt"],
     [id |-> <<"2", "1", "f">>, kind |-> "Allergen", v |-> "Hand"],
     [id |-> <<"2", "2">>, kind |-> "Allergen", v |-> "Crustaceans"],
     [id |-> <<"2", "3">>, kind |-> "Allergen", v |-> "Eggs"],
     [id |-> <<"2", "4">>, kind |-> "Allergen", v |-> "Fish"],
     [id |-> <<"2", "5">>, kind |-> "Allergen", v |-> "Peanuts"],
     [id |-> <<"2", "6">>, kind |-> "Allergen", v |-> "Nuts"],
     [id |-> <<"2", "6", "a">>, kind |-> "Allergen", v |-> "Almonds"],
     [id |-> <<"2", "6", "b">>, kind |-> "Allergen", v |-> "Hazelnut"],
     [id |-> <<"2", "6", "c">>, kind |-> "Allergen", v |-> "Wallnut"],
     [id |-> <<"2", "6", "d">>, kind |-> "Allergen", v |-> "Cashew"],
     [id |-> <<"2", "6", "e">>, kind |-> "Allergen", v |-> "Pecan"],
     [id |-> <<"2", "6", "f">>, kind |-> "Allergen", v |-> "Paranus"],
     [id |-> <<"2", "6", "g">>, kind |-> "Allergen", v |-> "Pistacio"],
     [id |-> <<"2", "6", "h">>, kind |-> "Allergen", v |-> "Macadamia"],
     [id |-> <<"2", "7">>, kind |-> "Allergen", v |-> "Cellery"],
     [id |-> <<"2", "8">>, kind |-> "Allergen", v |-> "Soy"],
     [id |-> <<"2", "9">>, kind |-> "Allergen", v |-> "Mustard"],
     [id |-> <<"3", "0">>, kind |-> "Allergen", v |-> "MilkProducts"],
     [id |-> <<"3", "1">>, kind |-> "Allergen", v |-> "Sesame"],
     [id |-> <<"3", "2">>, kind |-> "Allergen", v |-> "Sulfides"],
     [id |-> <<"3", "3">>, kind |-> "Allergen", v |-> "Lupine"],
     [id |-> <<"3", "4">>, kind |-> "Allergen", v |-> "Molluscs"],
     [id |-> <<"3", "5">>, kind |-> "Allergen", v |-> "NitriteSalt"],
     [id |-> <<"3", "6">>, kind |-> "Allergen", v |-> "Yeast"]}

InfoItem_from_id(id) ==
    IF \E e \in InfoTable : e.id = id
    THEN Some(CHOOSE e \in InfoTable : e.id = id)
    ELSE None

\* str::split(","): the pieces between the commas, in order
RECURSIVE split_comma(_)
split_comma(s) ==
    IF split_once_comma(s) = None
    THEN <<s>>
    ELSE <<split_once_comma(s)[1][1]>> \o split_comma(split_once_comma(s)[1][2])

\* the MealInfo that parse starts with (the slots it never fills left out)
NoInfo == [health |-> None, addatives |-> {}, allergens |-> {}]

\* the loop of the mutant below: a rating once set stays
RECURSIVE InfoLoopFirst(_, _)
InfoLoopFirst(info, pieces) ==
    IF pieces = <<>>
    THEN info
    ELSE LET it == InfoItem_from_id(Head(pieces))
         IN  InfoLoopFirst(
                 IF it = None
                 THEN info
                 ELSE IF it[1].kind = "Addative"
                      THEN [info EXCEPT !.addatives = @ \cup {it[1].v}]
                      ELSE IF it[1].kind = "Allergen"
                           THEN [info EXCEPT !.allergens = @ \cup {it[1].v}]
                           ELSE IF info.health = None
                                THEN [info EXCEPT !.health = Some(it[1].v)]
                                ELSE info,
                 Tail(pieces))

\* the mutant of MealInfo::parse in which the first rating code wins
MealInfo_parse_first_rating(desc) == InfoLoopFirst(NoInfo, split_comma(desc))

\* the loop of MealInfo::parse over the recognised pieces: HashSet::insert for
\* additives and allergens, Option::replace for the health rating
RECURSIVE InfoLoop(_, _)
InfoLoop(info, pieces) ==
    IF pieces = <<>>
    THEN info
    ELSE LET it == InfoItem_from_id(Head(pieces))
         IN  InfoLoop(
                 IF it = None
                 THEN info
                 ELSE IF it[1].kind = "Addative"
                      THEN [info EXCEPT !.addatives = @ \cup {it[1].v}]
                      ELSE IF it[1].kind = "Allergen"
                           THEN [info EXCEPT !.allergens = @ \cup {it[1].v}]
                           ELSE [info EXCEPT !.health = Some(it[1].v)],
                 Tail(pieces))

\* MealInfo::parse(desc)
MealInfo_parse(desc) == InfoLoop(NoInfo, split_comma(desc))

\* the pieces that the attribute strings parsed are made of
InfoCodes ==
    {<<"0", "A", "m", "p", "e", "l", "0">>, <<"0", "A", "m", "p", "e", "l", "2">>, <<"2">>,
     <<"2", "1">>, <<"2", "1", "a">>, <<"9", "9", "9">>, <<>>}

\* the pieces joined with commas
RECURSIVE JoinComma(_)
JoinComma(codes) ==
    IF codes = <<>>
    THEN <<>>
    ELSE IF Len(codes) = 1
         THEN codes[1]
         ELSE codes[1] \o <<",">> \o JoinComma(Tail(codes))

\* a call of MealInfo::parse
info_parse ==
    /\ call = NoFnCall
    /\ \E codes \in SeqsUpTo(InfoCodes, MaxCodes) :
          call' = [op |-> "MealInfo::parse", codes |-> codes, desc |-> JoinComma(codes),
                   ret |-> MealInfo_parse(JoinComma(codes))]
    /\ UNCHANGED <<keyrun, notKeyVars>>

InitParse == PlanIdle /\ KeyIdle /\ ManagerIdle

NextParse == price_parse \/ info_parse

SpecParse == InitParse /\ [][NextParse]_vars

\* ------------------------------------------ meals of a day (4.1, 4.2)

\* raw::ApiMeal, reduced to the fields that decide the price and the category
MealCategories == {"c1", "c2"}

\* preis1..3 as upstream sends them: two prices, a cent part of 100, no price
MealPriceStrings ==
    {<<"3", ",", "5", "0">>, <<"4", ",", "0", "5">>, <<"1", ",", "1", "0", "0">>, <<"a">>}

ApiMeal ==
    [category : MealCategories, preis_vorhanden : BOOLEAN,
     preis1 : MealPriceStrings, preis2 : MealPriceStrings, preis3 : MealPriceStrings]

\* the mutant of meal_price that does not look at preis_vorhanden
meal_price_unflagged(meal) ==
    IF \/ Price_parse(meal.preis1) = None
       \/ Price_parse(meal.preis2) = None
       \/ Price_parse(meal.preis3) = None
    THEN None
    ELSE Some([students |-> Price_parse(meal.preis1)[1],
               servants |-> Price_parse(meal.preis2)[1],
               guests |-> Price_parse(meal.preis3)[1]])

\* price: if meal.preis_vorhanden { (|| Some(MealPrice {students: parse(preis1)?,
\* servants: parse(preis2)?, guests: parse(preis3)?}))() } else { None }
meal_price(meal) ==
    IF meal.preis_vorhanden
    THEN IF \/ Price_parse(meal.preis1) = None
            \/ Price_parse(meal.preis2) = None
            \/ Price_parse(meal.preis3) = None
         THEN None
         ELSE Some([students |-> Price_parse(meal.preis1)[1],
                    servants |-> Price_parse(meal.preis2)[1],
                    guests |-> Price_parse(meal.preis3)[1]])
    ELSE None

\* the MensaMeal pushed for a meal, reduced to its price
MensaMeal(meal) == [price |-> meal_price(meal)]

\* the meals of a category, in the order of essen
OfCategory(essen, c) == SelectSeq(essen, LAMBDA m : m.category = c)

\* for meal in v.essen { categories.entry(meal.category).or_default().push(..) }
categories_from(essen) ==
    [c \in {essen[i].category : i \in 1..Len(essen)} |->
        [i \in 1..Len(OfCategory(essen, c)) |-> MensaMeal(OfCategory(essen, c)[i])]]

\* try_from on a payload of days with their meals: every day's meals are
\* converted, then `?` returns Err(InvalidDate) for a date that does not parse
MealPlan_try_from_meals(value) ==
    IF \E i \in 1..Len(value) : ~parse_from_str(value[i].datum_iso).ok
    THEN [ok |-> FALSE, days |-> <<>>]
    ELSE [ok |-> TRUE,
          days |-> sort_by_key([i \in 1..Len(value) |->
                                  [date |-> parse_from_str(value[i].datum_iso).date,
                                   categories |-> categories_from(value[i].essen)]])]

\* the payloads explored: one day, its date good or bad, with up to two meals
MealPayloads ==
    {<<[datum_iso |-> d, essen |-> e]>> :
        d \in {"2024-01-02", "02.01.2024"}, e \in SeqsUpTo(ApiMeal, 2)}

\* a call of MealPlan::try_from on a payload with meals
try_from_meals ==
    /\ call = NoFnCall
    /\ \E value \in MealPayloads :
          call' = [op |-> "MealPlan::try_from", value |-> value,
                   ret |-> MealPlan_try_from_meals(value)]
    /\ UNCHANGED <<keyrun, notKeyVars>>

NextMeals == try_from_meals

SpecMeals == InitParse /\ [][NextMeals]_vars

\* ------------------------------------- durable store documents (6.)

\* BSON values: a tag and a payload
Str(s) == [t |-> "string", v |-> s]

Oid(n) == [t |-> "oid", v |-> n]

Null == [t |-> "null", v |-> 0]

Missing == [t |-> "missing", v |-> 0]

Sub(d) == [t |-> "doc", v |-> d]

\* the value of a document at a field path (one or two names), Missing without it
GetPath(d, path) ==
    IF path[1] \notin DOMAIN d
    THEN Missing
    ELSE IF Len(path) = 1
         THEN d[path[1]]
         ELSE IF d[path[1]].t # "doc"
              THEN Missing
              ELSE IF path[2] \notin DOMAIN d[path[1]].v
                   THEN Missing
                   ELSE d[path[1]].v[path[2]]

\* equality of embedded documents: the same fields with the same values
DocEq(a, b) == DOMAIN a = DOMAIN b /\ \A f \in DOMAIN a : a[f].t = b[f].t /\ a[f].v = b[f].v

BsonEq(a, b) == a.t = b.t /\ (IF a.t = "doc" THEN DocEq(a.v, b.v) ELSE a.v = b.v)

\* a query filter is a sequence of clauses [path, value]; a clause with an
\* embedded document asks for the whole embedded document to be equal, a
\* dotted path for one field of it, null for a null or absent field
FilterMatches(d, filter) ==
    \A i \in 1..Len(filter) :
        IF filter[i].value.t = "null"
        THEN GetPath(d, filter[i].path).t \in {"null", "missing"}
        ELSE BsonEq(GetPath(d, filter[i].path), filter[i].value)

\* MealDay as serde writes it
ser_MealDay(m) ==
    Sub([date |-> Str(DateToString(m.date)), categories |-> [t |-> "map", v |-> m.categories]])

\* MensaMealDay {mensa_record_id, meal} as serde writes it
ser_MensaMealDay(mensa_record_id, meal) ==
    [mensa_record_id |-> Oid(mensa_record_id), meal |-> ser_MealDay(meal)]

\* MensaMealDay.meal as serde reads it back
de_meal(d) == [date |-> parse_from_str(d.meal.v.date.v).date, categories |-> d.meal.v.categories.v]

\* MensaData {_id: None, name, mensa_id, lang} as stored: _id is skipped when
\* None and given by the store
stored_MensaData(id, name, mensa_id, lang) ==
    [_id |-> Oid(id), name |-> Str(name), mensa_id |-> Str(mensa_id), lang |-> Str(lang)]

\* Collection::find_one(filter): a matching document, or None
find_one(coll, filter) ==
    IF \E d \in coll : FilterMatches(d, filter)
    THEN {Some(d) : d \in {x \in coll : FilterMatches(x, filter)}}
    ELSE {None}

\* the filters of MealCollections::get_day
get_day_mensa_filter(mensa_id, lang) ==
    << [path |-> <<"id">>, value |-> Str(mensa_id)],
       [path |-> <<"lang">>, value |-> IF lang = None THEN Null ELSE Str(lang[1])] >>

get_day_meal_filter(record_id, day) ==
    << [path |-> <<"mensa_record_id">>, value |-> Oid(record_id)],
       [path |-> <<"meal">>, value |-> Sub([date |-> Str(DateToString(day))])] >>

\* the filters of MealCollections::store_plan
store_plan_mensa_filter(mensa_id, lang) ==
    << [path |-> <<"mensa_id">>, value |-> Str(mensa_id)],
       [path |-> <<"lang">>, value |-> Str(lang)] >>

store_plan_meal_filter(record_id, date) ==
    << [path |-> <<"mensa_record_id">>, value |-> Oid(record_id)],
       [path |-> <<"meal", "date">>, value |-> Str(DateToString(date))] >>

\* MealCollections::get_day without a driver error: find the facility record by
\* (id, lang), then the day document by (record id, meal); the possible results.
\* The two reads are taken at one instant: documents are never deleted and a
\* record keeps its _id, so reading them apart finds nothing more.
MealCollections_get_day(mensas, meals, mensa_id, lang, day) ==
    UNION {
        IF m = None
        THEN {None}
        ELSE {IF d = None THEN None ELSE Some(de_meal(d[1]))
              : d \in find_one(meals, get_day_meal_filter(m[1]._id.v, day))}
        : m \in find_one(mensas, get_day_mensa_filter(mensa_id, lang))}

\* find_one_and_replace(filter, MensaData, upsert, ReturnDocument::After) on the
\* facilities: the collection afterwards and the document returned
upsert_mensa(mensas, mensa_id, lang, name) ==
    LET hits == {d \in mensas : FilterMatches(d, store_plan_mensa_filter(mensa_id, lang))}
    IN  IF hits = {}
        THEN LET new == stored_MensaData(Cardinality(mensas) + 1, name, mensa_id, lang)
             IN  {[coll |-> mensas \cup {new}, doc |-> new]}
        ELSE {LET new == stored_MensaData(d._id.v, name, mensa_id, lang)
              IN  [coll |-> (mensas \ {d}) \cup {new}, doc |-> new] : d \in hits}

\* replace_one(filter, MensaMealDay, upsert) on the days: the collection afterwards
upsert_meal(meals, record_id, meal) ==
    LET hits == {d \in meals : FilterMatches(d, store_plan_meal_filter(record_id, meal.date))}
        new == ser_MensaMealDay(record_id, meal)
    IN  IF hits = {}
        THEN {meals \cup {new}}
        ELSE {(meals \ {d}) \cup {new} : d \in hits}

\* the characters of facility ids and languages: letters and the key separator
Chars == {"a", "e", "n", ";"}

\* the strings a request can carry as facility id or language
Strs == SeqsUpTo(Chars, MaxStr)

\* MealPlans::key for a pair with an explicit language
key_encode ==
    /\ keyrun.step = "none"
    /\ \E mensa \in Strs, lang \in Strs :
          keyrun' = [mensa |-> mensa, lang |-> lang, key |-> MealPlans_key(mensa, Some(lang)),
                     out |-> None, step |-> "key"]
    /\ UNCHANGED <<call, notKeyVars>>

\* the decoding MealPlans::mensas applies to that key
key_decode ==
    /\ keyrun.step = "key"
    /\ keyrun' = [keyrun EXCEPT !.out = split_once(keyrun.key), !.step = "mensas"]
    /\ UNCHANGED <<call, notKeyVars>>

InitKey == PlanIdle /\ KeyIdle /\ ManagerIdle

NextKey == key_encode \/ key_decode

SpecKey == InitKey /\ [][NextKey]_vars

\* -------------------------------------------- MealPlanManager (4.4, 5.)

\* the concurrent tasks: HTTP handlers and the nightly job
Tasks == {"t1", "t2"}

\* the facility ids, languages and dates that requests carry; the date is one
\* that the first upstream answer below lacks and the second has
RequestMensas == {<<"a">>}

RequestLangs == {None, Some(DEFAULT_LANG)}

RequestDates == {2}

\* raw::ApiResult.result as upstream answers the manager: one day, two days
\* out of order (sharing a date with the first answer, with other content), a
\* date string that does not parse
UpstreamResults ==
    {<<[datum_iso |-> "2024-01-01", essen |-> "x"]>>,
     <<[datum_iso |-> "2024-01-02", essen |-> "y"], [datum_iso |-> "2024-01-01", essen |-> "y"]>>,
     <<[datum_iso |-> "02.01.2024", essen |-> "x"]>>}

\* what client.get(DATA_URL).send().await?.json().await? can come to: a transport
\* error, a body that is no ApiResult (both a reqwest::Error), or an ApiResult
UpstreamResponses ==
    {[kind |-> "transport", result |-> <<>>], [kind |-> "body", result |-> <<>>]}
    \cup {[kind |-> "json", result |-> r] : r \in UpstreamResults}

\* raw::ApiResult.mensaname
Mensaname == "Mensa"

\* the "en" of MealCollections::store_plan's lang.unwrap_or_else
StoreDefaultLang == <<"e", "n">>

NoPlan == [days |-> <<>>, mensa_name |-> ""]

NoRes == [kind |-> "none", plan |-> NoPlan, day |-> None, err |-> ""]

\* Ok(plan) of get_plan / fetch_plan
PlanRes(p) == [NoRes EXCEPT !.kind = "plan", !.plan = p]

\* Err(MealPlanError::Reqwest) or Err(MealPlanError::ParsePlan)
ErrRes(e) == [NoRes EXCEPT !.kind = "err", !.err = e]

\* the Option<MealDay> of get_day
DayRes(d) == [NoRes EXCEPT !.kind = "day", !.day = d]

\* the () of fetch_all
UnitRes == [NoRes EXCEPT !.kind = "unit"]

IdleTask ==
    [op |-> "idle", pc |-> "idle", mensa |-> <<>>, lang |-> None, day |-> 0,
     plan |-> NoPlan, todo |-> <<>>, snap |-> {}, calls |-> <<>>, outcomes |-> <<>>,
     causes |-> <<>>, ndb |-> 0, mem |-> "none", dur |-> "none", res |-> NoRes]

\* MealPlanManager::new: an empty cache, the store as configured
InitManager ==
    /\ data = <<>>
    /\ rw = [readers |-> {}, writer |-> {}]
    /\ tasks = [t \in Tasks |-> IdleTask]
    /\ jobs = {}
    /\ dbMensas = {}
    /\ dbMeals = {}
    /\ configured \in BOOLEAN
    /\ started = 0
    /\ restarted = FALSE

\* a task is free to take the next operation; tasks have no identity, so the
\* operation goes to the first free one
Free(t) == tasks[t].pc \in {"idle", "done"}

CanStart(t) ==
    /\ Free(t)
    /\ started < MaxCalls
    /\ t = "t1" \/ ~Free("t1")

\* routes::meals_plan calls get_plan(mensa, lang)
start_get_plan(t) ==
    /\ CanStart(t)
    /\ \E mensa \in RequestMensas, lang \in RequestLangs :
          tasks' = [tasks EXCEPT ![t] =
                       [IdleTask EXCEPT !.op = "get_plan", !.pc = "gp_lock",
                                        !.mensa = mensa, !.lang = lang]]
    /\ started' = started + 1
    /\ UNCHANGED <<data, rw, jobs, dbVars, configured, restarted, notMgrVars>>

\* get_plan: self.data.read().await
get_plan_lock(t) ==
    /\ tasks[t].pc = "gp_lock"
    /\ rw.writer = {}
    /\ rw' = [rw EXCEPT !.readers = @ \cup {t}]
    /\ tasks' = [tasks EXCEPT ![t].pc = "gp_read"]
    /\ UNCHANGED <<data, jobs, dbVars, configured, started, restarted, notMgrVars>>

\* the mutant of get_plan_read that fetches the plan although the key is present
get_plan_read_refetch(t) ==
    /\ tasks[t].pc = "gp_read"
    /\ tasks' = [tasks EXCEPT ![t] = [@ EXCEPT !.pc = "fp_send", !.mem = "miss"]]
    /\ rw' = [rw EXCEPT !.readers = @ \ {t}]
    /\ UNCHANGED <<data, jobs, dbVars, configured, started, restarted, notMgrVars>>

\* the mutant of get_plan_read without drop(data): the read guard lives on into
\* fetch_plan
get_plan_read_keep_guard(t) ==
    /\ tasks[t].pc = "gp_read"
    /\ LET plan == MealPlans_get(data, tasks[t].mensa, tasks[t].lang)
       IN  /\ tasks' = [tasks EXCEPT ![t] =
                           IF plan # None
                           THEN [@ EXCEPT !.pc = "done", !.mem = "hit", !.res = PlanRes(plan[1])]
                           ELSE [@ EXCEPT !.pc = "fp_send", !.mem = "miss"]]
           /\ rw' = IF plan # None THEN [rw EXCEPT !.readers = @ \ {t}] ELSE rw
    /\ UNCHANGED <<data, jobs, dbVars, configured, started, restarted, notMgrVars>>

\* get_plan: data.get(mensa, lang): a copy of the plan, or drop(data) and fetch_plan
get_plan_read(t) ==
    /\ tasks[t].pc = "gp_read"
    /\ LET plan == MealPlans_get(data, tasks[t].mensa, tasks[t].lang)
       IN  tasks' = [tasks EXCEPT ![t] =
                        IF plan # None
                        THEN [@ EXCEPT !.pc = "done", !.mem = "hit", !.res = PlanRes(plan[1])]
                        ELSE [@ EXCEPT !.pc = "fp_send", !.mem = "miss"]]
    /\ rw' = [rw EXCEPT !.readers = @ \ {t}]
    /\ UNCHANGED <<data, jobs, dbVars, configured, started, restarted, notMgrVars>>

\* fetch_plan: the GET to DATA_URL with ApiQuery::new(mensa, lang) goes out
fetch_plan_send(t) ==
    /\ tasks[t].pc = "fp_send"
    /\ tasks' = [tasks EXCEPT ![t] =
                    [@ EXCEPT !.pc = "fp_wait",
                              !.calls = Append(@, <<tasks[t].mensa, tasks[t].lang>>)]]
    /\ UNCHANGED <<data, rw, jobs, dbVars, configured, started, restarted, notMgrVars>>

\* fetch_plan returns to its caller: get_plan hands the result on, get_day
\* looks the day up in the fetched plan, fetch_all logs and goes to the next pair
FetchReturn(tk, ok, err) ==
    LET done == [tk EXCEPT !.outcomes = Append(@, IF ok THEN "ok" ELSE err)]
    IN  IF tk.op = "get_plan"
        THEN {[done EXCEPT !.pc = "done", !.res = IF ok THEN PlanRes(tk.plan) ELSE ErrRes(err)]}
        ELSE IF tk.op = "get_day"
             THEN IF ok
                  THEN {[done EXCEPT !.pc = "done", !.res = DayRes(v)]
                        : v \in MealPlan_get_day_internal(tk.plan.days, tk.day)}
                  ELSE {[done EXCEPT !.pc = "done", !.res = DayRes(None)]}
             ELSE {[done EXCEPT !.pc = "fa_next"]}

\* what upstream did, as the task's history keeps it: the request failed, the
\* body was no ApiResult, a date string did not parse, or a plan came
Cause(resp) ==
    IF resp.kind # "json"
    THEN resp.kind
    ELSE IF MealPlan_try_from(resp.result).ok THEN "plan" ELSE "date"

\* fetch_plan: the response arrives; `?` returns the errors, try_from parses
fetch_plan_recv(t) ==
    /\ tasks[t].pc = "fp_wait"
    /\ \E resp \in UpstreamResponses :
          LET tk == [tasks[t] EXCEPT !.causes = Append(@, Cause(resp))]
          IN  IF resp.kind # "json"
              THEN \E d \in FetchReturn(tk, FALSE, "Reqwest") :
                      tasks' = [tasks EXCEPT ![t] = d]
              ELSE LET r == MealPlan_try_from(resp.result)
                   IN  IF ~r.ok
                       THEN \E d \in FetchReturn(tk, FALSE, "ParsePlan") :
                               tasks' = [tasks EXCEPT ![t] = d]
                       ELSE tasks' = [tasks EXCEPT ![t] =
                                         [tk EXCEPT !.pc = "sp_lock",
                                                    !.plan = [days |-> r.days,
                                                              mensa_name |-> Mensaname]]]
    /\ UNCHANGED <<data, rw, jobs, dbVars, configured, started, restarted, notMgrVars>>

\* store_plan: self.data.write().await
store_plan_lock(t) ==
    /\ tasks[t].pc = "sp_lock"
    /\ rw.readers = {}
    /\ rw.writer = {}
    /\ rw' = [rw EXCEPT !.writer = {t}]
    /\ tasks' = [tasks EXCEPT ![t].pc = "sp_insert"]
    /\ UNCHANGED <<data, jobs, dbVars, configured, started, restarted, notMgrVars>>

\* the mutant of store_plan_insert that adds the fetched days to the plan the
\* key already has
store_plan_insert_merge(t) ==
    /\ tasks[t].pc = "sp_insert"
    /\ LET old == MealPlans_get(data, tasks[t].mensa, tasks[t].lang)
           plan == IF old = None
                   THEN tasks[t].plan
                   ELSE [tasks[t].plan EXCEPT !.days = old[1].days \o @]
       IN  data' = MealPlans_insert(data, tasks[t].mensa, tasks[t].lang, plan)
    /\ rw' = [rw EXCEPT !.writer = {}]
    /\ jobs' = IF configured
               THEN jobs \cup {[mensa_id |-> tasks[t].mensa,
                                lang |-> unwrap_or(tasks[t].lang, StoreDefaultLang),
                                plan |-> tasks[t].plan, pc |-> "mensa", idx |-> 0,
                                rec |-> 0]}
               ELSE jobs
    /\ \E tk \in FetchReturn(tasks[t], TRUE, "") : tasks' = [tasks EXCEPT ![t] = tk]
    /\ UNCHANGED <<dbVars, configured, started, restarted, notMgrVars>>

\* store_plan: insert under the write guard, drop it, spawn the durable write if
\* a store is configured; fetch_plan then returns Ok(plan). The write starts
\* with lang.unwrap_or_else(|| "en"), which the job record holds as its language
store_plan_insert(t) ==
    /\ tasks[t].pc = "sp_insert"
    /\ data' = MealPlans_insert(data, tasks[t].mensa, tasks[t].lang, tasks[t].plan)
    /\ rw' = [rw EXCEPT !.writer = {}]
    /\ jobs' = IF configured
               THEN jobs \cup {[mensa_id |-> tasks[t].mensa,
                                lang |-> unwrap_or(tasks[t].lang, StoreDefaultLang),
                                plan |-> tasks[t].plan, pc |-> "mensa", idx |-> 0,
                                rec |-> 0]}
               ELSE jobs
    /\ \E tk \in FetchReturn(tasks[t], TRUE, "") : tasks' = [tasks EXCEPT ![t] = tk]
    /\ UNCHANGED <<dbVars, configured, started, restarted, notMgrVars>>

\* routes::meals calls get_day(mensa_id, lang, day)
start_get_day(t) ==
    /\ CanStart(t)
    /\ \E mensa \in RequestMensas, lang \in RequestLangs, day \in RequestDates :
          tasks' = [tasks EXCEPT ![t] =
                       [IdleTask EXCEPT !.op = "get_day", !.pc = "gd_lock",
                                        !.mensa = mensa, !.lang = lang, !.day = day]]
    /\ started' = started + 1
    /\ UNCHANGED <<data, rw, jobs, dbVars, configured, restarted, notMgrVars>>

\* get_day_internal: self.data.read().await
get_day_lock(t) ==
    /\ tasks[t].pc = "gd_lock"
    /\ rw.writer = {}
    /\ rw' = [rw EXCEPT !.readers = @ \cup {t}]
    /\ tasks' = [tasks EXCEPT ![t].pc = "gd_read"]
    /\ UNCHANGED <<data, jobs, dbVars, configured, started, restarted, notMgrVars>>

\* MealPlanManager::get_day_internal on the map: the possible results
Manager_get_day_internal(m, mensa, lang, day) ==
    IF MealPlans_get(m, mensa, lang) = None
    THEN {None}
    ELSE MealPlan_get_day_internal(MealPlans_get(m, mensa, lang)[1].days, day)

\* the mutant of get_day_read that fetches the plan although the memory tier answered
get_day_read_refetch(t) ==
    /\ tasks[t].pc = "gd_read"
    /\ \E v \in Manager_get_day_internal(data, tasks[t].mensa, tasks[t].lang, tasks[t].day) :
          tasks' = [tasks EXCEPT ![t] =
                       IF configured
                       THEN [@ EXCEPT !.pc = "gd_db", !.mem = "miss"]
                       ELSE [@ EXCEPT !.pc = "fp_send", !.mem = "miss", !.dur = "skip"]]
    /\ rw' = [rw EXCEPT !.readers = @ \ {t}]
    /\ UNCHANGED <<data, jobs, dbVars, configured, started, restarted, notMgrVars>>

\* get_day: the memory tier answers, or else the durable store is asked if one
\* is configured, or else the plan is fetched
get_day_read(t) ==
    /\ tasks[t].pc = "gd_read"
    /\ \E v \in Manager_get_day_internal(data, tasks[t].mensa, tasks[t].lang, tasks[t].day) :
          tasks' = [tasks EXCEPT ![t] =
                       IF v # None
                       THEN [@ EXCEPT !.pc = "done", !.mem = "hit", !.res = DayRes(v)]
                       ELSE IF configured
                            THEN [@ EXCEPT !.pc = "gd_db", !.mem = "miss"]
                            ELSE [@ EXCEPT !.pc = "fp_send", !.mem = "miss", !.dur = "skip"]]
    /\ rw' = [rw EXCEPT !.readers = @ \ {t}]
    /\ UNCHANGED <<data, jobs, dbVars, configured, started, restarted, notMgrVars>>

\* the mutant of get_day_durable that keeps what the durable store answered in
\* the map, as a plan of that day or an empty plan
get_day_durable_cached(t) ==
    /\ tasks[t].pc = "gd_db"
    /\ \E v \in MealCollections_get_day(dbMensas, dbMeals, tasks[t].mensa, tasks[t].lang,
                                        tasks[t].day) :
          /\ tasks' = [tasks EXCEPT ![t] =
                          [@ EXCEPT !.pc = "done", !.dur = IF v = None THEN "miss" ELSE "hit",
                                    !.ndb = 1, !.res = DayRes(v)]]
          /\ data' = MealPlans_insert(data, tasks[t].mensa, tasks[t].lang,
                                      [days |-> v, mensa_name |-> Mensaname])
    /\ UNCHANGED <<rw, jobs, dbVars, configured, started, restarted, notMgrVars>>

\* get_day: collections.get_day(..).await.ok().flatten() is the result, found or not
get_day_durable(t) ==
    /\ tasks[t].pc = "gd_db"
    /\ \/ tasks' = [tasks EXCEPT ![t] =
                       [@ EXCEPT !.pc = "done", !.dur = "err", !.ndb = 1, !.res = DayRes(None)]]
       \/ \E v \in MealCollections_get_day(dbMensas, dbMeals, tasks[t].mensa, tasks[t].lang,
                                           tasks[t].day) :
             tasks' = [tasks EXCEPT ![t] =
                          [@ EXCEPT !.pc = "done", !.dur = IF v = None THEN "miss" ELSE "hit",
                                    !.ndb = 1, !.res = DayRes(v)]]
    /\ UNCHANGED <<data, rw, jobs, dbVars, configured, started, restarted, notMgrVars>>

\* the nightly job calls fetch_all
start_fetch_all(t) ==
    /\ CanStart(t)
    /\ tasks' = [tasks EXCEPT ![t] = [IdleTask EXCEPT !.op = "fetch_all", !.pc = "fa_lock"]]
    /\ started' = started + 1
    /\ UNCHANGED <<data, rw, jobs, dbVars, configured, restarted, notMgrVars>>

\* fetch_all: self.data.read().await
fetch_all_lock(t) ==
    /\ tasks[t].pc = "fa_lock"
    /\ rw.writer = {}
    /\ rw' = [rw EXCEPT !.readers = @ \cup {t}]
    /\ tasks' = [tasks EXCEPT ![t].pc = "fa_snap"]
    /\ UNCHANGED <<data, jobs, dbVars, configured, started, restarted, notMgrVars>>

\* the orders in which a set can be iterated
Orders(S) == {s \in [1..Cardinality(S) -> S] : \A i, j \in 1..Cardinality(S) : s[i] = s[j] => i = j}

\* fetch_all: .mensas().map(|(m, l)| (m.to_string(), l.to_string())).collect()
fetch_all_snapshot(t) ==
    /\ tasks[t].pc = "fa_snap"
    /\ \E todo \in Orders(MealPlans_mensas(data)) :
          tasks' = [tasks EXCEPT ![t] =
                       [@ EXCEPT !.pc = "fa_next", !.todo = todo, !.snap = DOMAIN data]]
    /\ rw' = [rw EXCEPT !.readers = @ \ {t}]
    /\ UNCHANGED <<data, jobs, dbVars, configured, started, restarted, notMgrVars>>

\* the mutant of fetch_all_next that gives the sweep up after a failed fetch
fetch_all_next_abort(t) ==
    /\ tasks[t].pc = "fa_next"
    /\ tasks' = [tasks EXCEPT ![t] =
                    IF \/ tasks[t].todo = <<>>
                       \/ (tasks[t].outcomes # <<>>
                           /\ tasks[t].outcomes[Len(tasks[t].outcomes)] # "ok")
                    THEN [@ EXCEPT !.pc = "done", !.res = UnitRes]
                    ELSE [@ EXCEPT !.pc = "fp_send", !.mensa = Head(tasks[t].todo)[1],
                                   !.lang = Some(Head(tasks[t].todo)[2]),
                                   !.todo = Tail(tasks[t].todo)]]
    /\ UNCHANGED <<data, rw, jobs, dbVars, configured, started, restarted, notMgrVars>>

\* fetch_all: for (mensa, lang) in mensas { self.fetch_plan(&mensa, Some(&lang)) }
fetch_all_next(t) ==
    /\ tasks[t].pc = "fa_next"
    /\ tasks' = [tasks EXCEPT ![t] =
                    IF tasks[t].todo = <<>>
                    THEN [@ EXCEPT !.pc = "done", !.res = UnitRes]
                    ELSE [@ EXCEPT !.pc = "fp_send", !.mensa = Head(tasks[t].todo)[1],
                                   !.lang = Some(Head(tasks[t].todo)[2]),
                                   !.todo = Tail(tasks[t].todo)]]
    /\ UNCHANGED <<data, rw, jobs, dbVars, configured, started, restarted, notMgrVars>>

\* MealCollections::store_plan, first await: upsert the facility record; an
\* error ends the job (it is logged, the job is gone). mensa_id and lang are
\* moved into the MensaData, the loop goes on with the record id and the plan
job_mensa(j) ==
    /\ j.pc = "mensa"
    /\ \/ /\ jobs' = jobs \ {j}
          /\ UNCHANGED dbMensas
       \/ \E r \in upsert_mensa(dbMensas, j.mensa_id, j.lang, j.plan.mensa_name) :
             /\ dbMensas' = r.coll
             /\ jobs' = IF j.plan.days = <<>>
                        THEN jobs \ {j}
                        ELSE (jobs \ {j}) \cup {[j EXCEPT !.rec = r.doc._id.v, !.idx = 1,
                                                          !.pc = "days", !.mensa_id = <<>>,
                                                          !.lang = <<>>]}
    /\ UNCHANGED <<data, rw, tasks, dbMeals, configured, started, restarted, notMgrVars>>

\* the mutant of job_day that starts the write over when an upsert fails
job_day_retry(j) ==
    /\ j.pc = "days"
    /\ \/ /\ jobs' = (jobs \ {j}) \cup {[j EXCEPT !.pc = "mensa", !.idx = 0, !.rec = 0,
                                                 !.mensa_id = <<"a">>, !.lang = StoreDefaultLang]}
          /\ UNCHANGED dbMeals
       \/ \E c \in upsert_meal(dbMeals, j.rec, j.plan.days[j.idx]) :
             /\ dbMeals' = c
             /\ jobs' = IF j.idx = Len(j.plan.days)
                        THEN jobs \ {j}
                        ELSE (jobs \ {j}) \cup {[j EXCEPT !.idx = @ + 1]}
    /\ UNCHANGED <<data, rw, tasks, dbMensas, configured, started, restarted, notMgrVars>>

\* MealCollections::store_plan, one turn of the loop over plan.days(): upsert
\* the day document; an error ends the job, and so does the last day
job_day(j) ==
    /\ j.pc = "days"
    /\ \/ /\ jobs' = jobs \ {j}
          /\ UNCHANGED dbMeals
       \/ \E c \in upsert_meal(dbMeals, j.rec, j.plan.days[j.idx]) :
             /\ dbMeals' = c
             /\ jobs' = IF j.idx = Len(j.plan.days)
                        THEN jobs \ {j}
                        ELSE (jobs \ {j}) \cup {[j EXCEPT !.idx = @ + 1]}
    /\ UNCHANGED <<data, rw, tasks, dbMensas, configured, started, restarted, notMgrVars>>

\* the process is shut down (main: with_graceful_shutdown lets the requests in
\* flight finish) and started again: MealPlanManager::new over the same durable
\* store. A detached write cut off by the shutdown leaves the store as a write
\* that fails at that point does, so the restart is taken with none running.
restart ==
    /\ ~restarted
    /\ \A t \in Tasks : Free(t)
    /\ jobs = {}
    /\ data' = <<>>
    /\ rw' = [readers |-> {}, writer |-> {}]
    /\ tasks' = [t \in Tasks |-> IdleTask]
    /\ jobs' = {}
    /\ restarted' = TRUE
    /\ UNCHANGED <<dbVars, configured, started, notMgrVars>>

Init == PlanIdle /\ KeyIdle /\ InitManager

Next ==
    \/ \E t \in Tasks : start_get_plan(t)
    \/ \E t \in Tasks : get_plan_lock(t)
    \/ \E t \in Tasks : get_plan_read(t)
    \/ \E t \in Tasks : fetch_plan_send(t)
    \/ \E t \in Tasks : fetch_plan_recv(t)
    \/ \E t \in Tasks : store_plan_lock(t)
    \/ \E t \in Tasks : store_plan_insert(t)
    \/ \E t \in Tasks : start_get_day(t)
    \/ \E t \in Tasks : get_day_lock(t)
    \/ \E t \in Tasks : get_day_read(t)
    \/ \E t \in Tasks : get_day_durable(t)
    \/ \E t \in Tasks : start_fetch_all(t)
    \/ \E t \in Tasks : fetch_all_lock(t)
    \/ \E t \in Tasks : fetch_all_snapshot(t)
    \/ \E t \in Tasks : fetch_all_next(t)
    \/ \E j \in jobs : job_mensa(j)
    \/ \E j \in jobs : job_day(j)
    \/ restart

Spec == Init /\ [][Next]_vars

\* one run of the process, from its start to its shutdown
NextRun ==
    \/ \E t \in Tasks : start_get_plan(t)
    \/ \E t \in Tasks : get_plan_lock(t)
    \/ \E t \in Tasks : get_plan_read(t)
    \/ \E t \in Tasks : fetch_plan_send(t)
    \/ \E t \in Tasks : fetch_plan_recv(t)
    \/ \E t \in Tasks : store_plan_lock(t)
    \/ \E t \in Tasks : store_plan_insert(t)
    \/ \E t \in Tasks : start_get_day(t)
    \/ \E t \in Tasks : get_day_lock(t)
    \/ \E t \in Tasks : get_day_read(t)
    \/ \E t \in Tasks : get_day_durable(t)
    \/ \E t \in Tasks : start_fetch_all(t)
    \/ \E t \in Tasks : fetch_all_lock(t)
    \/ \E t \in Tasks : fetch_all_snapshot(t)
    \/ \E t \in Tasks : fetch_all_next(t)
    \/ \E j \in jobs : job_mensa(j)
    \/ \E j \in jobs : job_day(j)

SpecRun == Init /\ [][NextRun]_vars

\* ------------------------------------------------ the nightly sweep (5.)

\* a cache that requests have warmed with two pairs, (facility "a", language
\* "en") and (facility "en", language "a"), each holding the first upstream answer
WarmPlan ==
    [days |-> MealPlan_try_from(<<[datum_iso |-> "2024-01-01", essen |-> "x"]>>).days,
     mensa_name |-> Mensaname]

WarmData ==
    MealPlans_insert(MealPlans_insert(<<>>, <<"a">>, Some(<<"e", "n">>), WarmPlan),
                     <<"e", "n">>, Some(<<"a">>), WarmPlan)

\* the manager without a durable store, cold or warm, before a sweep starts
InitSweep ==
    /\ PlanIdle
    /\ KeyIdle
    /\ data \in {<<>>, WarmData}
    /\ rw = [readers |-> {}, writer |-> {}]
    /\ tasks = [t \in Tasks |-> IdleTask]
    /\ jobs = {}
    /\ dbMensas = {}
    /\ dbMeals = {}
    /\ configured = FALSE
    /\ started = 0
    /\ restarted = FALSE

NextSweep ==
    \/ \E t \in Tasks : start_fetch_all(t)
    \/ \E t \in Tasks : fetch_all_lock(t)
    \/ \E t \in Tasks : fetch_all_snapshot(t)
    \/ \E t \in Tasks : fetch_all_next(t)
    \/ \E t \in Tasks : fetch_plan_send(t)
    \/ \E t \in Tasks : fetch_plan_recv(t)
    \/ \E t \in Tasks : store_plan_lock(t)
    \/ \E t \in Tasks : store_plan_insert(t)

\* every request gets its answer or its error (reqwest gives up at last) and
\* tokio gives every task its turn and every waiter its lock
SpecSweep == InitSweep /\ [][NextSweep]_vars /\ WF_vars(NextSweep)

\* ------------------------------------ requests with a durable store (5.)

\* the manager with a durable store configured, as MealPlanManager::new leaves it
InitDay ==
    /\ PlanIdle
    /\ KeyIdle
    /\ data = <<>>
    /\ rw = [readers |-> {}, writer |-> {}]
    /\ tasks = [t \in Tasks |-> IdleTask]
    /\ jobs = {}
    /\ dbMensas = {}
    /\ dbMeals = {}
    /\ configured = TRUE
    /\ started = 0
    /\ restarted = FALSE

\* the request handlers and the detached writes they spawn
NextDay ==
    \/ \E t \in Tasks : start_get_plan(t)
    \/ \E t \in Tasks : get_plan_lock(t)
    \/ \E t \in Tasks : get_plan_read(t)
    \/ \E t \in Tasks : fetch_plan_send(t)
    \/ \E t \in Tasks : fetch_plan_recv(t)
    \/ \E t \in Tasks : store_plan_lock(t)
    \/ \E t \in Tasks : store_plan_insert(t)
    \/ \E t \in Tasks : start_get_day(t)
    \/ \E t \in Tasks : get_day_lock(t)
    \/ \E t \in Tasks : get_day_read(t)
    \/ \E t \in Tasks : get_day_durable(t)
    \/ \E j \in jobs : job_mensa(j)
    \/ \E j \in jobs : job_day(j)

SpecDay == InitDay /\ [][NextDay]_vars

\* ------------------------------------- the durable store on its own (6.)

\* plans that store_plan is handed: try_from's sorted days, sharing both dates,
\* one date or none
StorePlans ==
    {[days |-> d, mensa_name |-> Mensaname] :
        d \in {<<[date |-> 1, categories |-> "x"], [date |-> 2, categories |-> "x"]>>,
               <<[date |-> 1, categories |-> "y"], [date |-> 2, categories |-> "y"]>>,
               <<[date |-> 2, categories |-> "x"]>>,
               <<[date |-> 3, categories |-> "y"]>>}}

\* a detached write as MealPlanManager::store_plan spawns it, with the language
\* as the caller gave it
StoreWrite(mensa_id, lang, plan) ==
    [mensa_id |-> mensa_id, lang |-> lang, plan |-> plan, pc |-> "mensa", idx |-> 0, rec |-> 0]

\* an empty store and two writes of different plans for one pair under way
InitStore ==
    /\ PlanIdle
    /\ KeyIdle
    /\ data = <<>>
    /\ rw = [readers |-> {}, writer |-> {}]
    /\ tasks = [t \in Tasks |-> IdleTask]
    /\ \E lang \in RequestLangs, p \in StorePlans, q \in StorePlans :
          /\ p # q
          /\ jobs = {StoreWrite(<<"a">>, lang, p), StoreWrite(<<"a">>, lang, q)}
    /\ dbMensas = {}
    /\ dbMeals = {}
    /\ configured = TRUE
    /\ started = 0
    /\ restarted = FALSE

\* MealCollections::store_plan up to its first await: lang.unwrap_or_else("en"),
\* the facility record is upserted; `?` returns a driver error. The write stays
\* on record with how it ended: Ok(()) is "ok", Err is "err"
write_mensa(j) ==
    /\ j.pc = "mensa"
    /\ \/ /\ jobs' = (jobs \ {j}) \cup {[j EXCEPT !.pc = "err"]}
          /\ UNCHANGED dbMensas
       \/ \E r \in upsert_mensa(dbMensas, j.mensa_id, unwrap_or(j.lang, StoreDefaultLang),
                                j.plan.mensa_name) :
             /\ dbMensas' = r.coll
             /\ jobs' = (jobs \ {j}) \cup
                        {IF j.plan.days = <<>>
                         THEN [j EXCEPT !.pc = "ok", !.rec = r.doc._id.v]
                         ELSE [j EXCEPT !.pc = "days", !.rec = r.doc._id.v, !.idx = 1]}
    /\ UNCHANGED <<data, rw, tasks, dbMeals, configured, started, restarted, notMgrVars>>

\* MealCollections::store_plan, one turn of `for meal in plan.days()`: the day
\* document is upserted; `?` returns a driver error, the last turn ends in Ok(())
write_day(j) ==
    /\ j.pc = "days"
    /\ \/ /\ jobs' = (jobs \ {j}) \cup {[j EXCEPT !.pc = "err"]}
          /\ UNCHANGED dbMeals
       \/ \E c \in upsert_meal(dbMeals, j.rec, j.plan.days[j.idx]) :
             /\ dbMeals' = c
             /\ jobs' = (jobs \ {j}) \cup
                        {IF j.idx = Len(j.plan.days)
                         THEN [j EXCEPT !.pc = "ok"]
                         ELSE [j EXCEPT !.idx = @ + 1]}
    /\ UNCHANGED <<data, rw, tasks, dbMensas, configured, started, restarted, notMgrVars>>

\* MealCollections::get_day(mensa_id, lang, day) for the pair of the writes:
\* Err of the driver, or Ok of what the two find_one calls give
point_read ==
    /\ call = NoFnCall
    /\ \E j \in jobs, day \in Dates :
          \E ret \in {[ok |-> FALSE, day |-> None]}
                     \cup {[ok |-> TRUE, day |-> v]
                           : v \in MealCollections_get_day(dbMensas, dbMeals, j.mensa_id,
                                                           j.lang, day)} :
             call' = [op |-> "MealCollections::get_day", mensa_id |-> j.mensa_id,
                      lang |-> j.lang, day |-> day, ret |-> ret]
    /\ UNCHANGED <<keyrun, planVars, mgrVars>>

NextStore ==
    \/ \E j \in jobs : write_mensa(j)
    \/ \E j \in jobs : write_day(j)
    \/ point_read

SpecStore == InitStore /\ [][NextStore]_vars

\* ----------------------------------------------------- claims on MealPlan

\* the invariant of MealPlan: strictly ascending dates, so no date twice
StrictlySorted(s) == \A i \in 1..(Len(s) - 1) : s[i].date < s[i + 1].date

\* s with its element at index i (1-based) left out
Without(s, i) == SubSeq(s, 1, i - 1) \o SubSeq(s, i + 1, Len(s))

\* C4: a plan that started empty and saw only add_day and remove_day calls has
\* its days strictly ascending by date, each date at most once.
C4_SortedAfterAddRemove == origin = "new" => StrictlySorted(days)

\* C5: every plan that try_from builds has its days strictly ascending by date,
\* with no date twice.
C5_TryFromStrictlySorted == last.op = "try_from" => StrictlySorted(days)

\* C6: add_day on a plan that passes its entry assertion: if a day with the date
\* is present the day sequence is unchanged (the new day is discarded), else the
\* new day is inserted and the other days are as before.
C6_AddDayFrame ==
    (last.op = "add_day" /\ assert_sorted(last.pre)) =>
        IF Matches(last.pre, last.day) # {}
        THEN days = last.pre
        ELSE \E i \in 1..Len(days) : days[i] = last.meals /\ Without(days, i) = last.pre

C6_Witness ==
    /\ last.op = "add_day"
    /\ assert_sorted(last.pre)
    /\ \E i \in Matches(last.pre, last.day) : last.pre[i] # last.meals
    /\ days = last.pre

\* C7: remove_day on a plan that passes its entry assertion: with no day of that
\* date the sequence is unchanged; otherwise no day of that date is left, the
\* sequence is sorted and the other days are as before.
C7_RemoveDay ==
    (last.op = "remove_day" /\ assert_sorted(last.pre)) =>
        IF Matches(last.pre, last.day) = {}
        THEN days = last.pre
        ELSE /\ Matches(days, last.day) = {}
             /\ assert_sorted(days)
             /\ \E i \in 1..Len(last.pre) : days = Without(last.pre, i)

C3_KeyRoundTrip ==
    keyrun.step = "mensas" =>
        /\ keyrun.out = Some(<<keyrun.mensa, keyrun.lang>>)
        /\ \A m2 \in Strs, l2 \in Strs :
              MealPlans_key(m2, Some(l2)) = keyrun.key => <<m2, l2>> = <<keyrun.mensa, keyrun.lang>>

\* ---------------------------------------------- claims on MealPlanManager

\* the language and the facility that a key "{lang};{mensa}" stands for
KeyLanguage(k) == split_once(k)[1][1]

KeyFacility(k) == split_once(k)[1][2]

\* the days of that date the memory tier holds for the pair, by a scan
CachedDays(m, mensa, lang, day) ==
    IF MealPlans_get(m, mensa, lang) = None
    THEN {}
    ELSE {MealPlans_get(m, mensa, lang)[1].days[i]
          : i \in Matches(MealPlans_get(m, mensa, lang)[1].days, day)}

\* the days of that date the durable store holds for the pair: the day
\* documents that store_plan wrote under the facility record of the pair
DurableDays(mensa, lang, day) ==
    {de_meal(d) : d \in {x \in dbMeals :
        /\ x.meal.v.date = Str(DateToString(day))
        /\ \E f \in dbMensas : /\ f.mensa_id = Str(mensa)
                               /\ f.lang = Str(unwrap_or(lang, StoreDefaultLang))
                               /\ x.mensa_record_id = f._id}}

\* C1: a get_day that missed the memory tier and got no day from the configured
\* durable store (a miss or a failed read) has made one upstream fetch, and
\* if the fetch succeeded with a plan holding the day it has returned that day.
C1_DurableMissFallsThroughToFetch ==
    \A t \in Tasks :
        (/\ tasks[t].op = "get_day"
         /\ tasks[t].pc = "done"
         /\ tasks[t].mem = "miss"
         /\ tasks[t].dur \in {"miss", "err"}) =>
            /\ Len(tasks[t].calls) = 1
            /\ (tasks[t].outcomes = <<"ok">> /\ Matches(tasks[t].plan.days, tasks[t].day) # {}) =>
                  \E i \in Matches(tasks[t].plan.days, tasks[t].day) :
                      tasks[t].res.day = Some(tasks[t].plan.days[i])

\* C2: a finished fetch_all has called fetch_plan once for each key of its
\* snapshot, with the facility of the key as facility and the language of the
\* key as language; when every fetch succeeded the plans went under the keys of
\* the snapshot.
C2_FetchAllRefetchesEachPair ==
    \A t \in Tasks :
        (tasks[t].op = "fetch_all" /\ tasks[t].pc = "done") =>
            /\ Len(tasks[t].calls) = Cardinality(tasks[t].snap)
            /\ \A k \in tasks[t].snap :
                  \E i \in 1..Len(tasks[t].calls) :
                      tasks[t].calls[i] = <<KeyFacility(k), Some(KeyLanguage(k))>>
            /\ (\A i \in 1..Len(tasks[t].outcomes) : tasks[t].outcomes[i] = "ok") =>
                  {MealPlans_key(tasks[t].calls[i][1], tasks[t].calls[i][2])
                   : i \in 1..Len(tasks[t].calls)} = tasks[t].snap

\* C9: when get_day reads the memory tier and it holds a day of the date for
\* the pair, get_day ends there with that day, having made no durable-store
\* call and no upstream fetch, and the collection and the store are as before.
C9_MemoryHit ==
    [][\A t \in Tasks :
          (/\ tasks[t].pc = "gd_read"
           /\ tasks'[t] # tasks[t]
           /\ CachedDays(data, tasks[t].mensa, tasks[t].lang, tasks[t].day) # {}) =>
              /\ tasks'[t].pc = "done"
              /\ tasks'[t].res.kind = "day"
              /\ \E d \in CachedDays(data, tasks[t].mensa, tasks[t].lang, tasks[t].day) :
                    tasks'[t].res.day = Some(d)
              /\ tasks'[t].calls = <<>>
              /\ tasks'[t].ndb = 0
              /\ data' = data
              /\ jobs' = jobs
              /\ dbMensas' = dbMensas
              /\ dbMeals' = dbMeals]_vars

C9_Witness ==
    \E t \in Tasks :
        /\ tasks[t].op = "get_day"
        /\ tasks[t].pc = "done"
        /\ tasks[t].mem = "hit"
        /\ tasks[t].res.day \in {Some(d) : d \in CachedDays(data, tasks[t].mensa, tasks[t].lang,
                                                           tasks[t].day)}
        /\ tasks[t].calls = <<>>
        /\ tasks[t].ndb = 0

\* C10: when get_day asks the durable store for a pair the memory tier does not
\* have, the read does not fail and the store holds a day of the date for the
\* pair, get_day returns that day and has made no upstream fetch.
C10_DurableHit ==
    [][\A t \in Tasks :
          (/\ tasks[t].pc = "gd_db"
           /\ tasks'[t].pc = "done"
           /\ tasks'[t].dur # "err"
           /\ MealPlans_get(data, tasks[t].mensa, tasks[t].lang) = None
           /\ DurableDays(tasks[t].mensa, tasks[t].lang, tasks[t].day) # {}) =>
              /\ \E d \in DurableDays(tasks[t].mensa, tasks[t].lang, tasks[t].day) :
                    tasks'[t].res.day = Some(d)
              /\ tasks'[t].calls = <<>>]_vars

\* the last element of a non-empty sequence
Last(s) == s[Len(s)]

\* C11: a finished get_day that missed the memory tier, for a triple the
\* durable store does not hold (and the read, if one was made, did not fail),
\* has made exactly one upstream fetch; if the fetch succeeded it has returned
\* the day of that date in the fetched plan (None if the plan has none) and a
\* plan is cached for the pair.
C11_AbsentEverywhereFetchesOnce ==
    \A t \in Tasks :
        (/\ tasks[t].op = "get_day"
         /\ tasks[t].pc = "done"
         /\ tasks[t].mem = "miss"
         /\ tasks[t].dur \in {"skip", "miss"}
         /\ DurableDays(tasks[t].mensa, tasks[t].lang, tasks[t].day) = {}) =>
            /\ Len(tasks[t].calls) = 1
            /\ tasks[t].outcomes = <<"ok">> =>
                  /\ MealPlans_get(data, tasks[t].mensa, tasks[t].lang) # None
                  /\ IF Matches(tasks[t].plan.days, tasks[t].day) = {}
                     THEN tasks[t].res.day = None
                     ELSE \E i \in Matches(tasks[t].plan.days, tasks[t].day) :
                             tasks[t].res.day = Some(tasks[t].plan.days[i])

\* C12: when get_plan reads the collection and the key is present it ends with
\* a copy of the cached plan, no fetch made and the collection as before; when
\* the key is absent it goes on to fetch, and when it then ends it has made
\* exactly one fetch and a plan it returns is the plan under the key.
C12_GetPlan ==
    [][\A t \in Tasks :
          /\ (tasks[t].pc = "gp_read" /\ tasks'[t] # tasks[t]) =>
                IF MealPlans_get(data, tasks[t].mensa, tasks[t].lang) # None
                THEN /\ tasks'[t].pc = "done"
                     /\ tasks'[t].res =
                           PlanRes(MealPlans_get(data, tasks[t].mensa, tasks[t].lang)[1])
                     /\ tasks'[t].calls = <<>>
                     /\ data' = data
                ELSE /\ tasks'[t].pc = "fp_send"
                     /\ tasks'[t].calls = <<>>
          /\ (/\ tasks[t].op = "get_plan"
              /\ tasks[t].pc \in {"fp_wait", "sp_insert"}
              /\ tasks'[t].pc = "done") =>
                /\ Len(tasks'[t].calls) = 1
                /\ tasks'[t].res.kind \in {"plan", "err"}
                /\ tasks'[t].res.kind = "plan" =>
                      MealPlans_get(data', tasks[t].mensa, tasks[t].lang)
                          = Some(tasks'[t].res.plan)]_vars

C12_Witness ==
    \E t1, t2 \in Tasks :
        /\ tasks[t1].op = "get_plan" /\ tasks[t1].pc = "done"
        /\ Len(tasks[t1].calls) = 1 /\ tasks[t1].res.kind = "plan"
        /\ tasks[t2].op = "get_plan" /\ tasks[t2].pc = "done"
        /\ tasks[t2].calls = <<>> /\ tasks[t2].res.kind = "plan"
        /\ MealPlans_get(data, tasks[t2].mensa, tasks[t2].lang) = Some(tasks[t2].res.plan)

\* C13: when the request of fetch_plan fails or its response does not parse,
\* the error is Reqwest for a failed request and ParsePlan for a response that
\* does not parse (a body that is no ApiResult, or a date string that does not
\* parse), get_plan returns that error, the collection is as before and no
\* durable write is dispatched.
C13_TypedUpstreamErrors ==
    [][\A t \in Tasks :
          (/\ tasks[t].pc = "fp_wait"
           /\ tasks'[t] # tasks[t]
           /\ Last(tasks'[t].causes) # "plan") =>
              /\ Last(tasks'[t].outcomes) =
                    (IF Last(tasks'[t].causes) = "transport" THEN "Reqwest" ELSE "ParsePlan")
              /\ tasks[t].op = "get_plan" =>
                    tasks'[t].res = ErrRes(Last(tasks'[t].outcomes))
              /\ data' = data
              /\ jobs' = jobs]_vars

\* C14: store_plan has the plan in the collection when it returns, and returns
\* with the durable write only dispatched; a step of a durable write, failed or
\* not, changes neither the collection nor any task's result; and a durable
\* write starts only from a store_plan, never again after it failed.
C14_DetachedWrite ==
    [][/\ \A t \in Tasks :
             (tasks[t].pc = "sp_insert" /\ tasks'[t] # tasks[t]) =>
                /\ MealPlans_get(data', tasks[t].mensa, tasks[t].lang) = Some(tasks[t].plan)
                /\ tasks'[t].pc \in {"done", "fa_next"}
                /\ tasks[t].op = "get_plan" => tasks'[t].res = PlanRes(tasks[t].plan)
                /\ configured => \E j \in jobs' : j.pc = "mensa" /\ j.plan = tasks[t].plan
       /\ (dbMensas' # dbMensas \/ dbMeals' # dbMeals \/ (jobs' \subseteq jobs /\ jobs' # jobs)) =>
             (data' = data /\ tasks' = tasks)
       /\ (\E j \in jobs' \ jobs : j.pc = "mensa") =>
             \E t \in Tasks : tasks[t].pc = "sp_insert" /\ tasks'[t] # tasks[t]]_vars

\* a get_plan has returned its plan, the plan is cached, and the durable write
\* has failed at its first step
C14_Witness ==
    \E t \in Tasks :
        /\ tasks[t].op = "get_plan" /\ tasks[t].pc = "done" /\ tasks[t].res.kind = "plan"
        /\ MealPlans_get(data, tasks[t].mensa, tasks[t].lang) = Some(tasks[t].res.plan)
        /\ configured /\ ~restarted
        /\ jobs = {} /\ dbMensas = {} /\ dbMeals = {}

KeyOf(mensa, lang) == (IF lang = None THEN <<"e", "n">> ELSE lang[1]) \o <<";">> \o mensa

\* C16: insert returns the plan the key had before (None if it had none);
\* afterwards get of the pair gives the inserted plan, every other key has the
\* plan it had, and with no language the entry is that of language "en".
C16_InsertReplaces ==
    call.op = "insert" =>
        /\ call.ret = (IF KeyOf(call.mensa, call.lang) \in DOMAIN call.pre
                       THEN Some(call.pre[KeyOf(call.mensa, call.lang)])
                       ELSE None)
        /\ MealPlans_get(data, call.mensa, call.lang) = Some(call.plan)
        /\ DOMAIN data = DOMAIN call.pre \cup {KeyOf(call.mensa, call.lang)}
        /\ \A k \in DOMAIN call.pre : k # KeyOf(call.mensa, call.lang) => data[k] = call.pre[k]
        /\ call.lang = None =>
              /\ MealPlans_get(data, call.mensa, Some(<<"e", "n">>)) = Some(call.plan)
              /\ call.ret = MealPlans_get(call.pre, call.mensa, Some(<<"e", "n">>))

\* an insert without language has replaced a different plan stored with "en"
C16_Witness ==
    /\ call.op = "insert"
    /\ call.lang = None
    /\ call.ret # None
    /\ call.ret # Some(call.plan)
    /\ Cardinality(DOMAIN data) >= 2

\* ------------------------------------------- claims on Price and MealInfo

\* one or more decimal digits
DigitString(s) == s # <<>> /\ \A i \in 1..Len(s) : s[i] \in Digits

\* the parts of a string "<euro>,<cent>", around its one comma
EuroPart(s) == SubSeq(s, 1, (CHOOSE i \in 1..Len(s) : s[i] = ",") - 1)

CentPart(s) == SubSeq(s, (CHOOSE i \in 1..Len(s) : s[i] = ",") + 1, Len(s))

\* s is "<euro>,<cent>" with both parts non-negative decimal integers
PriceForm(s) ==
    /\ Cardinality({i \in 1..Len(s) : s[i] = ","}) = 1
    /\ DigitString(EuroPart(s))
    /\ DigitString(CentPart(s))

\* the number a digit string of at most two significant digits stands for is < 100
Below100(s) == Len(StripZeros([i \in 1..Len(s) |-> DigitVal(s[i])])) <= 2

NumberOf(s) == ValueOf([i \in 1..Len(s) |-> DigitVal(s[i])])

\* C17: Price::parse succeeds exactly on the strings "<euro>,<cent>" of two
\* non-negative decimal integers with cent < 100, and then gives that euro
\* amount and that cent amount, the cent amount in 0..99.
C17_PriceParseExactly ==
    call.op = "Price::parse" =>
        /\ (call.ret # None) <=> (PriceForm(call.s) /\ Below100(CentPart(call.s)))
        /\ call.ret # None =>
              /\ call.ret[1].cent \in 0..99
              /\ PriceForm(call.s) =>
                    call.ret = Some([eur |-> NumberOf(EuroPart(call.s)),
                                     cent |-> NumberOf(CentPart(call.s))])

\* C18: Price::parse gives 3 euro 50 cent for "3,50", rejects "3,5", and
\* accepts no string whose cent part is not two characters long.
C18_TwoDigitCents ==
    call.op = "Price::parse" =>
        /\ call.s = <<"3", ",", "5", "0">> => call.ret = Some([eur |-> 3, cent |-> 50])
        /\ call.s = <<"3", ",", "5">> => call.ret = None
        /\ call.ret # None => Len(split_once_comma(call.s)[1][2]) = 2

\* the values of the recognised codes of one kind among the pieces
Recognised(codes, kind) ==
    {InfoItem_from_id(codes[i])[1].v :
        i \in {j \in 1..Len(codes) : /\ InfoItem_from_id(codes[j]) # None
                                     /\ InfoItem_from_id(codes[j])[1].kind = kind}}

\* the positions of the rating codes among the pieces
RatingAt(codes) ==
    {j \in 1..Len(codes) : /\ InfoItem_from_id(codes[j]) # None
                           /\ InfoItem_from_id(codes[j])[1].kind = "HealthRating"}

\* C19: MealInfo::parse of pieces joined by commas gives as additives and
\* allergens exactly the values of the recognised codes among the pieces, and
\* as health rating that of the last rating code, none without one; "21a" is
\* Wheat, "999" is dropped, "0Ampel0,0Ampel2" is Red.
C19_MealInfoParse ==
    call.op = "MealInfo::parse" =>
        /\ call.ret.addatives = Recognised(call.codes, "Addative")
        /\ call.ret.allergens = Recognised(call.codes, "Allergen")
        /\ call.ret.health =
              (IF RatingAt(call.codes) = {}
               THEN None
               ELSE Some(InfoItem_from_id(call.codes[CHOOSE j \in RatingAt(call.codes) :
                            \A i \in RatingAt(call.codes) : i <= j])[1].v))
        /\ call.desc = <<"2", "1", "a">> => call.ret = [NoInfo EXCEPT !.allergens = {"Wheat"}]
        /\ call.desc = <<"9", "9", "9">> => call.ret = NoInfo
        /\ call.desc = <<"0", "A", "m", "p", "e", "l", "0", ",", "0", "A", "m", "p", "e", "l", "2">> => call.ret = [NoInfo EXCEPT !.health = Some("Red")]

\* a string with a Green rating before a Red one, an unknown code and "21a"
C19_Witness ==
    /\ call.op = "MealInfo::parse"
    /\ Len(call.codes) = 4
    /\ call.codes[1] = <<"0", "A", "m", "p", "e", "l", "0">>
    /\ <<"9", "9", "9">> \in {call.codes[i] : i \in 1..4}
    /\ call.ret.health = Some("Red")
    /\ call.ret.allergens = {"Wheat"}

\* the positions of a task at which fetch_plan's request is about to go out or
\* is awaited, or collections.get_day is awaited
InFlight(t) == tasks[t].pc \in {"fp_send", "fp_wait", "gd_db"}

\* the tasks that hold a guard of the map's lock
Holders == rw.readers \cup rw.writer

\* C20: in every reachable state no task with an upstream request or a
\* durable-store operation in flight holds the read or the write guard of the
\* map: get_plan, get_day, fetch_plan, store_plan and fetch_all have released
\* it before the call is issued; the guards are held only while the map is
\* read or written, and the detached durable writes hold none
C20_NoGuardAcrossCalls ==
    /\ \A t \in Tasks : InFlight(t) => t \notin Holders
    /\ \A t \in rw.readers : tasks[t].pc \in {"gp_read", "gd_read", "fa_snap"}
    /\ \A t \in rw.writer : tasks[t].pc = "sp_insert"
    /\ Holders \subseteq Tasks

\* a request is awaited by one task while the other holds a guard of the map
C20_Witness ==
    \E t, u \in Tasks :
       /\ tasks[t].pc = "fp_wait"
       /\ tasks[t].mem = "miss"
       /\ u # t
       /\ u \in Holders

\* ------------------------------------------- claims on the durable store

\* the dates of a plan
PlanDates(plan) == {plan.days[i].date : i \in 1..Len(plan.days)}

\* the day a plan has for a date
PlanDay(plan, d) == plan.days[CHOOSE i \in 1..Len(plan.days) : plan.days[i].date = d]

\* the day documents the store holds for a facility record and a date
StoredDays(rec, d) ==
    {doc \in dbMeals : FilterMatches(doc, store_plan_meal_filter(rec, d))}

\* the store holds, for the date, the day document of this write and no other
StoredFrom(w, d) == StoredDays(w.rec, d) = {ser_MensaMealDay(w.rec, PlanDay(w.plan, d))}

\* C21: when two detached durable writes for the same (facility, language) with
\* two different plans have both finished with Ok, interleaved upsert by upsert
\* in any order, the store has converged to one of them, the last: for every
\* date that both plans contain, the stored day document is that write's
C21_ConvergesToLastWrite ==
    (\A j \in jobs : j.pc = "ok")
    => \E w \in jobs :
          \A o \in jobs \ {w} :
             \A d \in PlanDates(w.plan) \cap PlanDates(o.plan) : StoredFrom(w, d)

\* the writes that have a day for the date
WritesWith(d) == {j \in jobs : d \in PlanDates(j.plan)}

\* C22: once store_plan's durable write for (facility, language) has finished
\* with Ok and its plan has date d, get_day's durable point read for the same
\* (facility, language, d), if the driver reports no error, finds the facility
\* record and returns the day of that date that a write stored, also when the
\* language is unspecified
C22_PointReadFindsWrittenDay ==
    [][(/\ call = NoFnCall
        /\ call' # NoFnCall
        /\ call'.ret.ok
        /\ \E j \in WritesWith(call'.day) : j.pc = "ok")
       => /\ call'.ret.day # None
          /\ call'.ret.day[1] \in {PlanDay(k.plan, call'.day) : k \in WritesWith(call'.day)}]_vars

\* --------------------------------------- claims on concurrent requests

\* a finished get_plan or get_day that missed the memory tier and fetched a plan
FetchedOnMiss(t) ==
    /\ tasks[t].pc = "done"
    /\ tasks[t].op \in {"get_plan", "get_day"}
    /\ tasks[t].mem = "miss"
    /\ tasks[t].calls = <<<<tasks[t].mensa, tasks[t].lang>>>>
    /\ tasks[t].outcomes = <<"ok">>

\* C23: two get_plan or get_day calls for the same key that both missed the
\* memory tier have each made their own upstream fetch; once both have finished
\* with a fetched plan, under every interleaving, the collection holds for that
\* key one plan, and it is one of the two fetched plans
C23_RedundantFetchesLeaveOnePlan ==
    (/\ FetchedOnMiss("t1")
     /\ FetchedOnMiss("t2")
     /\ MealPlans_key(tasks["t1"].mensa, tasks["t1"].lang)
            = MealPlans_key(tasks["t2"].mensa, tasks["t2"].lang))
    => /\ MealPlans_get(data, tasks["t1"].mensa, tasks["t1"].lang) # None
       /\ MealPlans_get(data, tasks["t1"].mensa, tasks["t1"].lang)[1]
              \in {tasks["t1"].plan, tasks["t2"].plan}

\* both calls missed and fetched, the two fetched plans differ, and the
\* collection holds the plan of the first task although the second exists
C23_Witness ==
    /\ FetchedOnMiss("t1")
    /\ FetchedOnMiss("t2")
    /\ tasks["t1"].op = "get_plan"
    /\ tasks["t2"].op = "get_plan"
    /\ tasks["t1"].plan # tasks["t2"].plan
    /\ MealPlans_get(data, tasks["t1"].mensa, tasks["t1"].lang) = Some(tasks["t1"].plan)

\* a get_plan or get_day has returned
Returned(tk) == tk.pc = "done" /\ tk.op \in {"get_plan", "get_day"}

\* C24: when a get_plan or get_day returns, the collection has a plan for its
\* (facility, language) pair, an empty one if nothing could be fetched, also
\* after a failed fetch or an answer of the durable store; and no step of the
\* running process takes a pair out of the collection
C24_PairKnownAfterFirstReference ==
    [][/\ \A t \in Tasks :
             Returned(tasks'[t]) => MealPlans_get(data', tasks'[t].mensa, tasks'[t].lang) # None
       /\ restarted' = restarted => DOMAIN data \subseteq DOMAIN data']_vars

\* a get_day has returned what the durable store answered
DurableAnswered(tk) == tk.op = "get_day" /\ tk.pc = "done" /\ tk.ndb = 1

SameTriple(a, b) ==
    /\ MealPlans_key(a.mensa, a.lang) = MealPlans_key(b.mensa, b.lang)
    /\ a.day = b.day

AllPricesParse(m) ==
    /\ Price_parse(m.preis1) # None
    /\ Price_parse(m.preis2) # None
    /\ Price_parse(m.preis3) # None

\* the position in essen of the i-th meal of category c
NthOfCategory(essen, c, i) ==
    CHOOSE k \in 1..Len(essen) :
       /\ essen[k].category = c
       /\ Cardinality({j \in 1..k : essen[j].category = c}) = i

\* C26: a parsed meal carries a price if and only if upstream signals "price
\* available" and all three price strings (student, staff, guest) parse, and
\* then the price is those three; with the flag set and one string failing the
\* meal has no price at all; and whatever the prices, every meal is in its
\* category, and the day and the plan are produced whenever the date parses
C26_PriceAllOrNothing ==
    call.op = "MealPlan::try_from"
    => LET v == call.value[1]
           n(c) == Cardinality({k \in 1..Len(v.essen) : v.essen[k].category = c})
       IN  /\ call.ret.ok <=> parse_from_str(v.datum_iso).ok
           /\ call.ret.ok
              => /\ Len(call.ret.days) = 1
                 /\ DOMAIN call.ret.days[1].categories
                        = {v.essen[k].category : k \in 1..Len(v.essen)}
                 /\ \A c \in DOMAIN call.ret.days[1].categories :
                       /\ Len(call.ret.days[1].categories[c]) = n(c)
                       /\ \A i \in 1..n(c) :
                             LET m == v.essen[NthOfCategory(v.essen, c, i)]
                                 p == call.ret.days[1].categories[c][i].price
                             IN  /\ p # None <=> (m.preis_vorhanden /\ AllPricesParse(m))
                                 /\ p # None
                                    => p[1] = [students |-> Price_parse(m.preis1)[1],
                                               servants |-> Price_parse(m.preis2)[1],
                                               guests |-> Price_parse(m.preis3)[1]]

\* a plan is produced from a day with two meals of one category, both flagged:
\* the first has a staff price that does not parse and carries no price, the
\* second carries its three prices
C26_Witness ==
    /\ call.op = "MealPlan::try_from"
    /\ call.ret.ok
    /\ Len(call.value[1].essen) = 2
    /\ call.value[1].essen[1].category = call.value[1].essen[2].category
    /\ call.value[1].essen[1].preis_vorhanden
    /\ call.value[1].essen[2].preis_vorhanden
    /\ Price_parse(call.value[1].essen[1].preis1) # None
    /\ Price_parse(call.value[1].essen[1].preis2) = None
    /\ Price_parse(call.value[1].essen[1].preis3) # None
    /\ AllPricesParse(call.value[1].essen[2])
    /\ call.ret.days[1].categories[call.value[1].essen[1].category][1].price = None
    /\ call.ret.days[1].categories[call.value[1].essen[1].category][2].price # None

====
